---- MODULE Spec2Model ----
(***************************************************************************)
(* DSControl: the UDP control server (src/dscontrol/server/app.py), the    *)
(* wire codec it decodes with (src/dscontrol/protocol.py) and the          *)
(* actuation controller it drives (src/dscontrol/server/                   *)
(* control_interface.py), as one state machine, and next to it the client  *)
(* of that server (src/dscontrol/client/app.py).                           *)
(*                                                                         *)
(* Time is the value of time.time(), counted in units of 0.25 s, so that   *)
(* HEARTBEAT_TIMEOUT_SECONDS = 0.25 s is 1 unit, on a host whose system    *)
(* clock is not set back while the server runs. The lengths of the two     *)
(* loops' sleeps are left open: a loop's next iteration may run at any     *)
(* time after the previous one.                                            *)
(*                                                                         *)
(* An Optional[T] field is a sequence of length at most one: <<>> is None  *)
(* and <<v>> is the value v.                                               *)
(*                                                                         *)
(* A JSON value is a tagged record: [k |-> "null"], [k |-> "str", s |-> _],*)
(* [k |-> "num", n |-> _], [k |-> "bool", b |-> _], [k |-> "list", l |-> _]*)
(* and [k |-> "obj", o |-> f] with f a function from keys to JSON values.  *)
(***************************************************************************)
EXTENDS Integers, Sequences, FiniteSets, TLC

VARIABLES
    require_hello,    \* ServerConfig.require_hello
    backend,          \* DriverStationController._backend
    sessions,         \* DriverStationServer.sessions: client_id -> ClientSession
    robot_state,      \* DriverStationServer.robot_state
    last_command_by,  \* DriverStationServer.last_command_by (Optional[str])
    last_command_at,  \* DriverStationServer.last_command_at (Optional[float])
    transport,        \* DriverStationServer.transport: "none", "open", "closed"
    running,          \* DriverStationServer.running (asyncio.Event)
    watchdog_task,    \* position of _watchdog_loop: "none" before start,
                      \* "sleeping" in its sleep, "cancelling" once cancel() was
                      \* called on it, "cancelled", "done" or "failed" at its end
    status_task,      \* position of _status_loop, likewise
    now,              \* time.time()
    step,             \* the operation that produced this state
    sent,             \* the datagrams that operation handed to transport.sendto
    calls,            \* the commands that operation applied: the command, its
                      \* sender, the controller call made and what it reported
    raised,           \* the exception that operation ended with, "none" if it returned
    hello_seen,       \* history: the client ids whose HELLO the server has handled
    client_transport, \* RemoteClient.transport: "none", "open", "closing" once
                      \* close() was called on it and its connection_lost is
                      \* still to come, "closed"
    _connected,       \* RemoteClient._connected (asyncio.Event)
    _running,         \* RemoteClient._running
    _hello_task,      \* the task RemoteClient._hello_task refers to: "none",
                      \* "sleeping", "cancelling" once cancel() was called on
                      \* it, "cancelled"
    _heartbeat_task,  \* the task RemoteClient._heartbeat_task refers to, likewise
    _status_waiter,   \* the future RemoteClient._status_waiter refers to: "none",
                      \* "pending", "done"
    last_status,      \* RemoteClient.last_status (Optional[StatusReport])
    orphans,          \* the pairs of hello and heartbeat loops that are in their
                      \* sleeps and that no field of the client refers to any more
    pc,               \* where the caller of connect() and close() is: "idle"
                      \* between calls, "endpoint" in create_datagram_endpoint,
                      \* "connected" when the endpoint is made and connect() is
                      \* about to go on, "ping" in _ping_server's wait,
                      \* "close_heartbeat" and "close_hello" in close()'s waits
    closing_for,      \* who called the close() that runs or ran last: "user",
                      \* or "connect" after a failed handshake
    ended,            \* how the last call of connect() or close() ended: "none"
                      \* while it runs, "returned", "TimeoutError"
    on_error,         \* the messages the operation passed to the on_error callback
    connects          \* the number of connect() calls made

\* the fields of the client and what observes it
client == <<client_transport, _connected, _running, _hello_task, _heartbeat_task,
            _status_waiter, last_status, orphans, pc, closing_for, ended,
            on_error, connects>>

vars == <<require_hello, backend, sessions, robot_state, last_command_by,
          last_command_at, transport, running, watchdog_task, status_task, now,
          step, sent, calls, raised, hello_seen, client>>

\* what no operation of the server changes
config == <<require_hello, backend>>

\* the fields of the server
server == <<config, sessions, robot_state, last_command_by, last_command_at,
            transport, running, watchdog_task, status_task, now, hello_seen>>

-----------------------------------------------------------------------------
\* Bounds of the model

\* time.time() runs from 0 to MaxTime
MaxTime == 2

\* connect() is called at most MaxConnects times on one RemoteClient
MaxConnects == 2

-----------------------------------------------------------------------------
\* protocol.py: constants and vocabulary

\* HEARTBEAT_TIMEOUT_SECONDS = 0.25, in units of 0.25 s
HEARTBEAT_TIMEOUT == 1

MessageType == {"HELLO", "HEARTBEAT", "COMMAND", "STATUS", "ERROR"}

CommandType == {"enable", "disable", "estop", "teleop", "auto", "practice", "test"}

\* the commands _apply_command hands to controller.set_mode
ModeCommands == {"teleop", "auto", "practice", "test"}

\* RobotMode: the value set_mode receives for each mode command
RobotMode(command) ==
    CASE command = "teleop" -> "teleoperated"
      [] command = "auto" -> "autonomous"
      [] command = "practice" -> "practice"
      [] command = "test" -> "test"

RobotModes == {RobotMode(command) : command \in ModeCommands}

-----------------------------------------------------------------------------
\* JSON values, as json.loads returns them

JNull == [k |-> "null"]
JStr(s) == [k |-> "str", s |-> s]
JNum(n) == [k |-> "num", n |-> n]
JBool(b) == [k |-> "bool", b |-> b]
JList(l) == [k |-> "list", l |-> l]
JObj(f) == [k |-> "obj", o |-> f]

\* dict.get(key): the value, or None
Get(f, key) == IF key \in DOMAIN f THEN f[key] ELSE JNull

\* Python truthiness of a JSON value (`not x`, `x or {}`)
Truthy(j) ==
    CASE j.k = "null" -> FALSE
      [] j.k = "str" -> j.s # ""
      [] j.k = "num" -> j.n # 0
      [] j.k = "bool" -> j.b
      [] j.k = "list" -> Len(j.l) > 0
      [] j.k = "obj" -> DOMAIN j.o # {}

\* ProtocolMessage.from_json. data is the datagram: [k |-> "badutf8"] and
\* [k |-> "badjson"] are bytes that json.loads(data.decode()) rejects, any
\* other value is the JSON value the bytes parse to. The result is the frame
\* (exc = "none"), or the exception raised: ProtocolError with its message,
\* or the AttributeError of raw.get on a value that is not a dict.
from_json(data) ==
    IF data.k \in {"badutf8", "badjson"}
    THEN [exc |-> "ProtocolError", error |-> "Invalid JSON payload"]
    ELSE IF data.k # "obj"
    THEN [exc |-> "AttributeError", error |-> "object has no attribute 'get'"]
    ELSE LET msg_type_str == Get(data.o, "type")
             raw_payload == Get(data.o, "payload")
             payload == IF Truthy(raw_payload) THEN raw_payload ELSE JObj(<<>>)
         IN  IF ~Truthy(msg_type_str)
             THEN [exc |-> "ProtocolError", error |-> "Missing message type"]
             ELSE IF ~(msg_type_str.k = "str" /\ msg_type_str.s \in MessageType)
             THEN [exc |-> "ProtocolError", error |-> "Unknown message type"]
             ELSE IF payload.k # "obj"
             THEN [exc |-> "ProtocolError", error |-> "Payload must be an object"]
             ELSE [exc |-> "none", type |-> msg_type_str.s, payload |-> payload.o]

\* StatusReport.to_payload and make_status: the STATUS frame of a report
make_status(report) ==
    [type |-> "STATUS",
     payload |-> [robot_state |-> report.robot_state,
                  last_command_by |-> report.last_command_by,
                  last_command_at |-> report.last_command_at,
                  connected_clients |-> report.connected_clients,
                  ds_state |-> report.ds_state,
                  timestamp |-> now]]

\* make_error: the ERROR frame with a message
make_error(message) ==
    [type |-> "ERROR", payload |-> [error |-> message, timestamp |-> now]]

\* make_hello, make_heartbeat, make_command: the frames a client builds,
\* with the payload as Python values (an Optional as <<>> or <<v>>)
make_hello(client_id) ==
    [type |-> "HELLO", payload |-> [client_id |-> client_id]]

make_heartbeat(client_id) ==
    [type |-> "HEARTBEAT", payload |-> [client_id |-> client_id, timestamp |-> now]]

make_command(client_id, command) ==
    [type |-> "COMMAND",
     payload |-> [client_id |-> client_id, timestamp |-> now, command |-> command]]

\* json.dumps of a payload field: a str, a number, or an Optional of one
dumps(key, v) ==
    CASE key \in {"client_id", "command", "error", "robot_state", "ds_state"} -> JStr(v)
      [] key \in {"timestamp", "connected_clients"} -> JNum(v)
      [] key = "last_command_by" -> IF v = <<>> THEN JNull ELSE JStr(v[1])
      [] key = "last_command_at" -> IF v = <<>> THEN JNull ELSE JNum(v[1])

\* json.loads of a payload field, as the Python value of that field
loads(key, j) ==
    CASE j.k = "null" -> <<>>
      [] j.k = "str" -> IF key = "last_command_by" THEN <<j.s>> ELSE j.s
      [] j.k = "num" -> IF key = "last_command_at" THEN <<j.n>> ELSE j.n

\* to_json that writes the type alone
to_json_without_payload(message) == JObj([type |-> JStr(message.type)])

\* ProtocolMessage.to_json: the JSON value whose text the frame is sent as
to_json(message) ==
    JObj([type |-> JStr(message.type),
          payload |-> JObj([key \in DOMAIN message.payload |->
                              dumps(key, message.payload[key])])])

-----------------------------------------------------------------------------
\* control_interface.py: DriverStationController
\* outcome is what the automation underneath does in this call: "ok", or
\* "throws" when the key press, the click or the FMS packet raises.

Backends == {"pyautogui", "windows-stub", "log-only", "fms"}
Outcomes == {"ok", "throws"}

ControlResult(success, name) == [success |-> success, backend |-> name]

\* _fms_enable, _fms_disable, _fms_estop: the exception is caught and reported
_fms_call(action, outcome) == ControlResult(outcome = "ok", "fms")

\* _send_keys: pyautogui failures are caught and reported; without an
\* automation backend the request is logged (log-only counts as success)
_send_keys(action, outcome) ==
    IF backend = "pyautogui"
    THEN ControlResult(outcome = "ok", backend)
    ELSE ControlResult(backend = "log-only", backend)

\* enable, disable, estop
controller_call(action, outcome) ==
    IF backend = "fms" THEN _fms_call(action, outcome) ELSE _send_keys(action, outcome)

-----------------------------------------------------------------------------
\* app.py: DriverStationServer

ClientIds == {"a", "watchdog"}
Addresses == {"addr1", "addr2"}

\* the order in which a broadcast walks the session table
SessionOrder == <<"a", "watchdog">>

ClientSession(client_id, addr) ==
    [client_id |-> client_id, address |-> addr, last_heartbeat |-> now]

\* The server's mutable fields at the entry of an operation, with the
\* operation's record of what it sent, called and raised still empty.
Self ==
    [sessions |-> sessions, robot_state |-> robot_state,
     last_command_by |-> last_command_by, last_command_at |-> last_command_at,
     sent |-> <<>>, calls |-> <<>>, raised |-> "none"]

\* The operation's result becomes the next state.
Commit(s) ==
    /\ sessions' = s.sessions
    /\ robot_state' = s.robot_state
    /\ last_command_by' = s.last_command_by
    /\ last_command_at' = s.last_command_at
    /\ sent' = s.sent
    /\ calls' = s.calls
    /\ raised' = s.raised

\* _send: without a transport the frame is dropped (and logged); a closed
\* transport drops it as well
_send(s, message, addr) ==
    IF transport = "open"
    THEN [s EXCEPT !.sent = Append(@, [to |-> addr, msg |-> message])]
    ELSE s

\* _status_report that counts the addresses of the sessions
_status_report_counting_addresses(s) ==
    [robot_state |-> s.robot_state,
     last_command_by |-> s.last_command_by,
     last_command_at |-> s.last_command_at,
     connected_clients |-> Cardinality({s.sessions[c].address : c \in DOMAIN s.sessions}),
     ds_state |-> ""]

\* _status_report: built from the fields as they are now
_status_report(s) ==
    [robot_state |-> s.robot_state,
     last_command_by |-> s.last_command_by,
     last_command_at |-> s.last_command_at,
     connected_clients |-> Cardinality(DOMAIN s.sessions),
     ds_state |-> ""]

\* _send_status
_send_status(s, addr) == _send(s, make_status(_status_report(s)), addr)

\* _broadcast_status that sends the report of the fields as they were when
\* the running operation began
_broadcast_status_cached(s) ==
    IF DOMAIN s.sessions = {}
    THEN s
    ELSE LET message == make_status(_status_report(Self))
             ids == SelectSeq(SessionOrder, LAMBDA c : c \in DOMAIN s.sessions)
             frames == [i \in 1..Len(ids) |->
                          [to |-> s.sessions[ids[i]].address, msg |-> message]]
         IN  IF transport = "open" THEN [s EXCEPT !.sent = @ \o frames] ELSE s

\* _broadcast_status: one STATUS frame to the address of every session
_broadcast_status(s) ==
    IF DOMAIN s.sessions = {}
    THEN s
    ELSE LET message == make_status(_status_report(s))
             ids == SelectSeq(SessionOrder, LAMBDA c : c \in DOMAIN s.sessions)
             frames == [i \in 1..Len(ids) |->
                          [to |-> s.sessions[ids[i]].address, msg |-> message]]
         IN  IF transport = "open" THEN [s EXCEPT !.sent = @ \o frames] ELSE s

\* _extract_client_id that returns None without a reply
_extract_client_id_silent(s, payload, addr) ==
    LET client_id == Get(payload, "client_id")
    IN  IF client_id.k # "str"
        THEN [s |-> s, client_id |-> <<>>]
        ELSE [s |-> s, client_id |-> <<client_id.s>>]

\* _extract_client_id: the client_id, or None after replying with an ERROR
_extract_client_id(s, payload, addr) ==
    LET client_id == Get(payload, "client_id")
    IN  IF client_id.k # "str"
        THEN [s |-> _send(s, make_error("client_id required"), addr), client_id |-> <<>>]
        ELSE [s |-> s, client_id |-> <<client_id.s>>]

\* `if not client_id: return` in the three handlers
NoClientId(x) == x.client_id = <<>> \/ x.client_id = <<"">>

\* _handle_hello that replies before it registers the sender
_handle_hello_reply_first(s, payload, addr) ==
    LET x == _extract_client_id(s, payload, addr)
    IN  IF NoClientId(x) THEN x.s
        ELSE LET client_id == x.client_id[1]
                 s1 == _send_status(s, addr)
             IN  IF client_id \in DOMAIN s.sessions
                 THEN [s1 EXCEPT !.sessions[client_id].address = addr,
                                 !.sessions[client_id].last_heartbeat = now]
                 ELSE [s1 EXCEPT !.sessions =
                          (client_id :> ClientSession(client_id, addr)) @@ @]

\* _handle_hello that leaves the address of a session it finds
_handle_hello_keeping_address(s, payload, addr) ==
    LET x == _extract_client_id(s, payload, addr)
    IN  IF NoClientId(x) THEN x.s
        ELSE LET client_id == x.client_id[1]
                 s1 == IF client_id \in DOMAIN s.sessions
                       THEN [s EXCEPT !.sessions[client_id].last_heartbeat = now]
                       ELSE [s EXCEPT !.sessions =
                                (client_id :> ClientSession(client_id, addr)) @@ @]
             IN  _send_status(s1, addr)

\* _handle_hello
_handle_hello(s, payload, addr) ==
    LET x == _extract_client_id(s, payload, addr)
    IN  IF NoClientId(x) THEN x.s
        ELSE LET client_id == x.client_id[1]
                 s1 == IF client_id \in DOMAIN s.sessions
                       THEN [s EXCEPT !.sessions[client_id].address = addr,
                                      !.sessions[client_id].last_heartbeat = now]
                       ELSE [s EXCEPT !.sessions =
                                (client_id :> ClientSession(client_id, addr)) @@ @]
             IN  _send_status(s1, addr)

\* the test under which _handle_heartbeat rejects an unknown client
hello_required_never(table, client_id) == FALSE

hello_required(table, client_id) == client_id \notin DOMAIN table /\ require_hello

\* _handle_heartbeat that stores the timestamp the client put in the frame
_handle_heartbeat_client_time(s, payload, addr) ==
    LET x == _extract_client_id(s, payload, addr)
    IN  IF NoClientId(x) THEN x.s
        ELSE LET client_id == x.client_id[1]
             IN  IF hello_required(s.sessions, client_id)
                 THEN _send(s, make_error("Send HELLO before HEARTBEAT"), addr)
                 ELSE [s EXCEPT !.sessions =
                          (client_id :> [client_id |-> client_id, address |-> addr,
                                         last_heartbeat |-> Get(payload, "timestamp").n]) @@ @]

\* _handle_heartbeat that answers a HEARTBEAT it accepts with a STATUS frame
_handle_heartbeat_acknowledged(s, payload, addr) ==
    LET x == _extract_client_id(s, payload, addr)
    IN  IF NoClientId(x) THEN x.s
        ELSE LET client_id == x.client_id[1]
             IN  IF hello_required(s.sessions, client_id)
                 THEN _send(s, make_error("Send HELLO before HEARTBEAT"), addr)
                 ELSE _send_status([s EXCEPT !.sessions =
                          (client_id :> ClientSession(client_id, addr)) @@ @], addr)

\* _handle_heartbeat
_handle_heartbeat(s, payload, addr) ==
    LET x == _extract_client_id(s, payload, addr)
    IN  IF NoClientId(x) THEN x.s
        ELSE LET client_id == x.client_id[1]
             IN  IF hello_required(s.sessions, client_id)
                 THEN _send(s, make_error("Send HELLO before HEARTBEAT"), addr)
                 ELSE [s EXCEPT !.sessions =
                          (client_id :> ClientSession(client_id, addr)) @@ @]

\* the branch of _apply_command's if/elif chain that a command takes
branch_without_test(command) ==
    CASE command = "enable" -> "enable"
      [] command = "estop" -> "estop"
      [] command \in ModeCommands \ {"test"} -> "set_mode"
      [] OTHER -> "disable"

branch(command) ==
    CASE command = "enable" -> "enable"
      [] command = "estop" -> "estop"
      [] command \in ModeCommands -> "set_mode"
      [] OTHER -> "disable"

\* robot_state after controller.enable() returned result
after_enable_unchecked(result, state) == "enabled"

after_enable(result, state) == IF result.success THEN "enabled" ELSE state

\* robot_state after controller.estop() returned result
after_estop_on_success(result, state) == IF result.success THEN "estop" ELSE state

after_estop(result, state) == "estop"

\* robot_state after controller.disable() returned result
after_disable_on_success(result, state) == IF result.success THEN "disabled" ELSE state

after_disable(result, state) == "disabled"

\* the entry of calls for one run of _apply_command
Call(command, client_id, action, success) ==
    [command |-> command, client_id |-> client_id, op |-> action, success |-> success]

\* _apply_command
_apply_command(s, command, client_id, outcome) ==
    LET record(s1) == _broadcast_status(
                          [s1 EXCEPT !.last_command_by = <<client_id>>,
                                     !.last_command_at = <<now>>])
        called(action, result) ==
            [s EXCEPT !.calls = Append(@, Call(command, client_id, action, result.success))]
    IN  CASE branch(command) = "enable" ->
               LET result == controller_call("enable", outcome)
               IN  record([called("enable", result) EXCEPT
                             !.robot_state = after_enable(result, @)])
          [] branch(command) = "estop" ->
               LET result == controller_call("estop", outcome)
               IN  record([called("estop", result) EXCEPT
                             !.robot_state = after_estop(result, @)])
          [] branch(command) = "set_mode" ->
               \* set_mode raises, or returns a result that is bound to no
               \* name: the log call that reads `result` then raises
               IF outcome = "throws"
               THEN [s EXCEPT !.calls = Append(@, Call(command, client_id, RobotMode(command), FALSE)),
                              !.raised = "set_mode"]
               ELSE [s EXCEPT !.calls = Append(@, Call(command, client_id, RobotMode(command), TRUE)),
                              !.last_command_by = <<client_id>>,
                              !.last_command_at = <<now>>,
                              !.raised = "UnboundLocalError"]
          [] OTHER ->
               LET result == controller_call("disable", outcome)
               IN  record([called("disable", result) EXCEPT
                             !.robot_state = after_disable(result, @)])

\* `client_id not in self.sessions`, the test _handle_command rejects on
is_registered_or_relaxed(table, client_id) ==
    client_id \in DOMAIN table \/ ~require_hello

is_registered(table, client_id) == client_id \in DOMAIN table

\* _handle_command that hands the command string to _apply_command as it is
_handle_command_unvalidated(s, payload, addr, outcome) ==
    LET x == _extract_client_id(s, payload, addr)
    IN  IF NoClientId(x) THEN x.s
        ELSE LET client_id == x.client_id[1]
                 command_str == Get(payload, "command")
             IN  IF ~is_registered(s.sessions, client_id)
                 THEN _send(s, make_error("Client not registered; send HELLO first"), addr)
                 ELSE _apply_command(s, IF command_str.k = "str" THEN command_str.s ELSE "",
                                     client_id, outcome)

\* _handle_command that treats a COMMAND of a registered client as a sign
\* of life, as _handle_heartbeat does
_handle_command_refreshing(s, payload, addr, outcome) ==
    LET x == _extract_client_id(s, payload, addr)
    IN  IF NoClientId(x) THEN x.s
        ELSE LET client_id == x.client_id[1]
                 command_str == Get(payload, "command")
                 s1 == [s EXCEPT !.sessions =
                          (client_id :> ClientSession(client_id, addr)) @@ @]
             IN  IF ~is_registered(s.sessions, client_id)
                 THEN _send(s, make_error("Client not registered; send HELLO first"), addr)
                 ELSE IF ~(command_str.k = "str" /\ command_str.s \in CommandType)
                 THEN _send(s1, make_error("Unknown command"), addr)
                 ELSE _apply_command(s1, command_str.s, client_id, outcome)

\* _handle_command
_handle_command(s, payload, addr, outcome) ==
    LET x == _extract_client_id(s, payload, addr)
    IN  IF NoClientId(x) THEN x.s
        ELSE LET client_id == x.client_id[1]
                 command_str == Get(payload, "command")
             IN  IF ~is_registered(s.sessions, client_id)
                 THEN _send(s, make_error("Client not registered; send HELLO first"), addr)
                 ELSE IF ~(command_str.k = "str" /\ command_str.s \in CommandType)
                 THEN _send(s, make_error("Unknown command"), addr)
                 ELSE _apply_command(s, command_str.s, client_id, outcome)

\* datagram_received that takes over the robot_state of a STATUS frame
dispatch_status_trusted(s, data, addr, outcome) ==
    LET message == from_json(data)
    IN  IF message.exc = "ProtocolError"
        THEN _send(s, make_error(message.error), addr)
        ELSE IF message.exc # "none"
        THEN [s EXCEPT !.raised = message.exc]
        ELSE CASE message.type = "HELLO" -> _handle_hello(s, message.payload, addr)
               [] message.type = "HEARTBEAT" -> _handle_heartbeat(s, message.payload, addr)
               [] message.type = "COMMAND" ->
                      _handle_command(s, message.payload, addr, outcome)
               [] message.type = "STATUS" /\ Get(message.payload, "robot_state").k = "str" ->
                      [s EXCEPT !.robot_state = Get(message.payload, "robot_state").s]
               [] OTHER -> s

\* datagram_received, as a function of the state at entry
dispatch(s, data, addr, outcome) ==
    LET message == from_json(data)
    IN  IF message.exc = "ProtocolError"
        THEN _send(s, make_error(message.error), addr)
        ELSE IF message.exc # "none"
        THEN [s EXCEPT !.raised = message.exc]
        ELSE CASE message.type = "HELLO" -> _handle_hello(s, message.payload, addr)
               [] message.type = "HEARTBEAT" -> _handle_heartbeat(s, message.payload, addr)
               [] message.type = "COMMAND" ->
                      _handle_command(s, message.payload, addr, outcome)
               [] OTHER -> s

-----------------------------------------------------------------------------
\* The datagrams the network delivers, each with the address it comes from

Frame(type, payload) == JObj([type |-> JStr(type), payload |-> JObj(payload)])

hello(c) == Frame("HELLO", [client_id |-> c])
heartbeat(c) == Frame("HEARTBEAT", [client_id |-> c, timestamp |-> JNum(0)])
command(c, k) ==
    Frame("COMMAND", [client_id |-> c, timestamp |-> JNum(0), command |-> k])

\* client ids that are no session key: the empty string and a number
BadIds == {JStr(""), JNum(7)}

\* client "a" sends from both addresses, client "watchdog" from the second
ClientInputs ==
    {<<f, addr>> : f \in {hello(JStr("a")), heartbeat(JStr("a")),
                          command(JStr("a"), JStr("enable"))},
                   addr \in Addresses}
        \cup {<<f, "addr2">> : f \in {hello(JStr("watchdog")), heartbeat(JStr("watchdog")),
                                      command(JStr("watchdog"), JStr("enable")),
                                      command(JStr("watchdog"), JStr("disable"))}}
        \cup {<<command(JStr("a"), JStr(k)), "addr1">> :
                k \in (CommandType \ {"enable"}) \cup {"bogus"}}
        \cup {<<Frame("COMMAND", [client_id |-> JStr("a"), timestamp |-> JNum(0)]), "addr1">>,
              <<command(JStr("a"), JNum(1)), "addr1">>}

\* frames the handlers reject for their client_id, frames the server ignores,
\* and datagrams that are no frame
OtherInputs ==
    {<<f, "addr1">> : f \in {hello(c) : c \in BadIds} \cup {Frame("HELLO", <<>>)}
                         \cup {heartbeat(c) : c \in BadIds}
                         \cup {command(c, JStr("enable")) : c \in BadIds}
                         \cup {hello(JNull),
                               Frame("HEARTBEAT", [timestamp |-> JNum(0)]),
                               Frame("COMMAND", [command |-> JStr("enable")])}}
        \cup {<<Frame("STATUS", [robot_state |-> JStr("enabled")]), "addr1">>,
              <<Frame("ERROR", [error |-> JStr("x")]), "addr1">>}
        \cup {<<d, "addr2">> : d \in
                {[k |-> "badutf8"], [k |-> "badjson"],
                 JList(<<>>),
                 JObj([payload |-> JObj([client_id |-> JStr("a")])]),
                 JObj([type |-> JStr("BOGUS"), payload |-> JObj([client_id |-> JStr("a")])]),
                 JObj([type |-> JStr("HELLO"), payload |-> JStr("a")]),
                 JObj([type |-> JStr("HELLO"), payload |-> JList(<<>>)]),
                 JObj([type |-> JStr("HELLO"), payload |-> JBool(FALSE)]),
                 JObj([type |-> JStr("HEARTBEAT"), payload |-> JNum(0)]),
                 JObj([type |-> JStr("STATUS"), payload |-> JList(<<>>)])}}

Inputs == ClientInputs \cup OtherInputs

\* the frames whose handling calls the controller, so that the outcome of
\* the call is an input as well
IsCommand(data) ==
    /\ data.k = "obj"
    /\ "type" \in DOMAIN data.o
    /\ data.o["type"] = JStr("COMMAND")

-----------------------------------------------------------------------------
\* The state after DriverStationServer.__init__

Init ==
    /\ require_hello \in BOOLEAN
    /\ backend \in Backends
    /\ sessions = <<>>
    /\ robot_state = "disabled"
    /\ last_command_by = <<>>
    /\ last_command_at = <<>>
    /\ transport = "none"
    /\ running = FALSE
    /\ watchdog_task = "none"
    /\ status_task = "none"
    /\ now = 0
    /\ step = "init"
    /\ sent = <<>>
    /\ calls = <<>>
    /\ raised = "none"
    /\ hello_seen = {}
    /\ client_transport = "none"
    /\ _connected = FALSE
    /\ _running = FALSE
    /\ _hello_task = "none"
    /\ _heartbeat_task = "none"
    /\ _status_waiter = "none"
    /\ last_status = <<>>
    /\ orphans = 0
    /\ pc = "idle"
    /\ closing_for = "none"
    /\ ended = "none"
    /\ on_error = <<>>
    /\ connects = 0

\* start: the endpoint is open and both loops are created; the watchdog
\* begins with its sleep, the status loop with its first broadcast
start ==
    /\ transport = "none"
    /\ transport' = "open"
    /\ running' = TRUE
    /\ watchdog_task' = "sleeping"
    /\ status_task' = "sleeping"
    /\ step' = "start"
    /\ sent' = <<>> /\ calls' = <<>> /\ raised' = "none"
    /\ UNCHANGED <<client, config, hello_seen, sessions, robot_state, last_command_by, last_command_at, now>>

\* time.time() advances
clock ==
    /\ transport # "none"
    /\ now < MaxTime
    /\ now' = now + 1
    /\ step' = "clock"
    /\ sent' = <<>> /\ calls' = <<>> /\ raised' = "none"
    /\ UNCHANGED <<client, config, hello_seen, sessions, robot_state, last_command_by, last_command_at,
                   transport, running, watchdog_task, status_task>>

\* datagram_received
datagram_received(data, addr, outcome) ==
    /\ transport = "open"
    /\ step' = "datagram"
    /\ Commit(dispatch(Self, data, addr, outcome))
    /\ UNCHANGED <<client, config, transport, running, watchdog_task, status_task, now>>

\* the sessions a tick of _watchdog_loop removes
timed_out_late(table) ==
    {cid \in DOMAIN table : now - table[cid].last_heartbeat > 2 * HEARTBEAT_TIMEOUT}

timed_out_at_timeout(table) ==
    {cid \in DOMAIN table : now - table[cid].last_heartbeat >= HEARTBEAT_TIMEOUT}

timed_out(table) ==
    {cid \in DOMAIN table : now - table[cid].last_heartbeat > HEARTBEAT_TIMEOUT}

\* the test under which a tick of _watchdog_loop disables the robot
must_disable_unless_disabled(state, removed, table) ==
    state # "disabled" /\ (removed # {} \/ DOMAIN table = {})

\* the same test, passing only while a session is left to be told
must_disable_if_sessions_remain(state, removed, table) ==
    state = "enabled" /\ removed # {} /\ DOMAIN table # {}

\* the same test, passing only when the table is left empty
must_disable_when_all_gone(state, removed, table) ==
    state = "enabled" /\ DOMAIN table = {}

must_disable(state, removed, table) ==
    state = "enabled" /\ (removed # {} \/ DOMAIN table = {})

\* where _watchdog_loop is after a tick that ended as s1: an exception leaves
\* the loop (only CancelledError is caught, around the whole loop), and so
\* does the test of running
after_tick_stops_on_failure(s1) ==
    IF s1.raised # "none" \/ (\E i \in 1..Len(s1.calls) : ~s1.calls[i].success)
    THEN "failed"
    ELSE IF running THEN "sleeping" ELSE "done"

after_tick(s1) ==
    IF s1.raised # "none" THEN "failed"
    ELSE IF running THEN "sleeping" ELSE "done"

\* one iteration of _watchdog_loop: the sleep has ended, the tick runs, and
\* the loop tests running again; an exception ends the loop
_watchdog_loop(outcome) ==
    /\ watchdog_task = "sleeping"
    /\ step' = "watchdog"
    /\ LET removed == timed_out(sessions)
           s0 == [Self EXCEPT !.sessions =
                     [cid \in DOMAIN sessions \ removed |-> sessions[cid]]]
           s1 == IF must_disable(s0.robot_state, removed, s0.sessions)
                 THEN _apply_command(s0, "disable", "watchdog", outcome)
                 ELSE s0
       IN  /\ Commit(s1)
           /\ watchdog_task' = after_tick(s1)
    /\ UNCHANGED <<client, config, hello_seen, transport, running, status_task, now>>

\* one iteration of _status_loop
_status_loop ==
    /\ status_task = "sleeping"
    /\ step' = "status"
    /\ IF running
       THEN /\ Commit(_broadcast_status(Self))
            /\ status_task' = "sleeping"
       ELSE /\ Commit(Self)
            /\ status_task' = "done"
    /\ UNCHANGED <<client, config, hello_seen, transport, running, watchdog_task, now>>

\* connection_lost
connection_lost ==
    /\ transport = "open"
    /\ transport' = "closed"
    /\ running' = FALSE
    /\ step' = "connection_lost"
    /\ sent' = <<>> /\ calls' = <<>> /\ raised' = "none"
    /\ UNCHANGED <<client, config, hello_seen, sessions, robot_state, last_command_by, last_command_at,
                   watchdog_task, status_task, now>>

\* Task.cancel() on a loop: a loop in its sleep is marked and ends when the
\* event loop runs it next; a loop that has ended stays as it is
cancel(task) == IF task = "sleeping" THEN "cancelling" ELSE task

\* close: it has no await, so both loops are cancelled and the transport is
\* closed in one step, before the event loop runs either loop again
close ==
    /\ transport = "open"
    /\ running' = FALSE
    /\ watchdog_task' = cancel(watchdog_task)
    /\ status_task' = cancel(status_task)
    /\ transport' = "closed"
    /\ step' = "close"
    /\ sent' = <<>> /\ calls' = <<>> /\ raised' = "none"
    /\ UNCHANGED <<client, config, hello_seen, sessions, robot_state, last_command_by, last_command_at, now>>

\* the event loop runs a cancelled loop: CancelledError is raised at its
\* sleep and caught, and the loop returns
_watchdog_loop_cancelled ==
    /\ watchdog_task = "cancelling"
    /\ watchdog_task' = "cancelled"
    /\ step' = "watchdog_cancelled"
    /\ sent' = <<>> /\ calls' = <<>> /\ raised' = "none"
    /\ UNCHANGED <<client, config, hello_seen, sessions, robot_state, last_command_by, last_command_at,
                   transport, running, status_task, now>>

_status_loop_cancelled ==
    /\ status_task = "cancelling"
    /\ status_task' = "cancelled"
    /\ step' = "status_cancelled"
    /\ sent' = <<>> /\ calls' = <<>> /\ raised' = "none"
    /\ UNCHANGED <<client, config, hello_seen, sessions, robot_state, last_command_by, last_command_at,
                   transport, running, watchdog_task, now>>

\* the client ids that a datagram's HELLO frame registers or refreshes
HelloIds(data) ==
    LET message == from_json(data)
    IN  IF message.exc = "none" /\ message.type = "HELLO"
           /\ Get(message.payload, "client_id").k = "str"
           /\ Get(message.payload, "client_id").s # ""
        THEN {Get(message.payload, "client_id").s}
        ELSE {}

\* a datagram arrives: the frames clients send
receive ==
    \E in \in ClientInputs, outcome \in Outcomes :
        /\ outcome = "ok" \/ IsCommand(in[1])
        /\ datagram_received(in[1], in[2], outcome)
        /\ UNCHANGED hello_seen

Next ==
    \/ start
    \/ clock
    \/ receive
    \/ \E outcome \in Outcomes : _watchdog_loop(outcome)
    \/ _status_loop
    \/ connection_lost
    \/ close
    \/ _watchdog_loop_cancelled
    \/ _status_loop_cancelled

Spec == Init /\ [][Next]_vars

\* The same server, with the history of HELLO frames kept and the commands
\* that arm and disarm the robot
GateInputs ==
    {in \in ClientInputs :
        IsCommand(in[1]) =>
            Get(in[1].o["payload"].o, "command") \in {JStr("enable"), JStr("disable")}}

receive_hello_seen ==
    \E in \in GateInputs, outcome \in Outcomes :
        /\ outcome = "ok" \/ IsCommand(in[1])
        /\ datagram_received(in[1], in[2], outcome)
        /\ hello_seen' = hello_seen \cup HelloIds(in[1])

NextHello ==
    \/ start
    \/ clock
    \/ receive_hello_seen
    \/ \E outcome \in Outcomes : _watchdog_loop(outcome)
    \/ _status_loop
    \/ connection_lost
    \/ close
    \/ _watchdog_loop_cancelled
    \/ _status_loop_cancelled

SpecHello == Init /\ [][NextHello]_vars

\* The same server, with every kind of datagram delivered: the datagrams
\* that are no client frame, next to the frames that register a client and
\* arm, stop and disarm the robot
FrameInputs ==
    OtherInputs
        \cup {<<f, "addr1">> : f \in {hello(JStr("a")), heartbeat(JStr("a")),
                                      command(JStr("a"), JStr("enable")),
                                      command(JStr("a"), JStr("estop")),
                                      command(JStr("a"), JStr("disable"))}}
        \cup {<<hello(JStr("watchdog")), "addr2">>}

receive_any ==
    \E in \in FrameInputs, outcome \in Outcomes :
        /\ outcome = "ok" \/ IsCommand(in[1])
        /\ datagram_received(in[1], in[2], outcome)
        /\ UNCHANGED hello_seen

NextFrames ==
    \/ start
    \/ clock
    \/ receive_any
    \/ \E outcome \in Outcomes : _watchdog_loop(outcome)
    \/ _status_loop
    \/ connection_lost
    \/ close
    \/ _watchdog_loop_cancelled
    \/ _status_loop_cancelled

SpecFrames == Init /\ [][NextFrames]_vars

-----------------------------------------------------------------------------
\* client/app.py: RemoteClient. One caller uses the client: it calls
\* connect(), close() and send_command() one after the other, never two at
\* a time. The on_error callback is set.

\* ClientConfig.client_id
ClientConfig == [client_id |-> "a"]

\* the fields an operation of the client may assign, as the record the
\* operations below work on
ClientSelf ==
    [client_transport |-> client_transport, _running |-> _running,
     _hello_task |-> _hello_task, _heartbeat_task |-> _heartbeat_task,
     _status_waiter |-> _status_waiter, pc |-> pc, closing_for |-> closing_for,
     ended |-> ended]

\* The operation's result becomes the next state.
ClientCommit(c) ==
    /\ client_transport' = c.client_transport
    /\ _running' = c._running
    /\ _hello_task' = c._hello_task
    /\ _heartbeat_task' = c._heartbeat_task
    /\ _status_waiter' = c._status_waiter
    /\ pc' = c.pc
    /\ closing_for' = c.closing_for
    /\ ended' = c.ended

\* what an operation of the client shows: its name, the frames it handed to
\* transport.sendto, the messages it passed to on_error and the exception it
\* ended with; the server is another process
Observe(name, frames, errors, exc) ==
    /\ step' = name
    /\ sent' = frames
    /\ on_error' = errors
    /\ raised' = exc
    /\ calls' = <<>>
    /\ UNCHANGED server

\* RemoteClient._send: without a transport the frame is dropped (and
\* logged); sendto on a transport that was closed drops it as well
RemoteClient_send(message) ==
    IF client_transport = "open" THEN <<[to |-> "server", msg |-> message]>> ELSE <<>>

\* connect, up to create_datagram_endpoint
RemoteClient_connect ==
    /\ pc = "idle"
    /\ connects < MaxConnects
    /\ connects' = connects + 1
    /\ IF _running
       THEN /\ ended' = "returned"
            /\ UNCHANGED <<_status_waiter, pc>>
       ELSE /\ ended' = "none"
            /\ _status_waiter' = "pending"
            /\ pc' = "endpoint"
    /\ Observe("connect", <<>>, <<>>, "none")
    /\ UNCHANGED <<client_transport, _connected, _running, _hello_task, _heartbeat_task,
                   last_status, orphans, closing_for>>

\* connection_made: the event loop calls it for the new endpoint, after the
\* connection_lost of a transport that was closed before. The two fields
\* get new tasks; loops of the tasks they referred to, if still in their
\* sleeps, run on without a reference
RemoteClient_connection_made ==
    /\ pc = "endpoint"
    /\ client_transport # "closing"
    /\ client_transport' = "open"
    /\ _connected' = TRUE
    /\ orphans' = IF _hello_task = "sleeping" \/ _heartbeat_task = "sleeping"
                  THEN orphans + 1 ELSE orphans
    /\ _hello_task' = "sleeping"
    /\ _heartbeat_task' = "sleeping"
    /\ pc' = "connected"
    /\ Observe("connection_made", <<>>, <<>>, "none")
    /\ UNCHANGED <<_running, _status_waiter, last_status, closing_for, ended, connects>>

\* connect goes on once the endpoint is made: _connected.wait(), _running,
\* and _ping_server up to its wait for the STATUS
_ping_server ==
    /\ pc = "connected"
    /\ _connected
    /\ _running' = TRUE
    /\ _status_waiter' = "pending"
    /\ pc' = "ping"
    /\ Observe("ping", RemoteClient_send(make_hello(ClientConfig.client_id)), <<>>, "none")
    /\ UNCHANGED <<client_transport, _connected, _hello_task, _heartbeat_task,
                   last_status, orphans, closing_for, ended, connects>>

\* _ping_server's wait ends with the STATUS: connect returns
_ping_server_status ==
    /\ pc = "ping"
    /\ _status_waiter = "done"
    /\ _status_waiter' = "none"
    /\ pc' = "idle"
    /\ ended' = "returned"
    /\ Observe("ping_status", <<>>, <<>>, "none")
    /\ UNCHANGED <<client_transport, _connected, _running, _hello_task, _heartbeat_task,
                   last_status, orphans, closing_for, connects>>

\* close, from transport.close() on; a close() that connect called is
\* followed by connect's raise
close_transport(c) ==
    [c EXCEPT !.client_transport = IF @ = "open" THEN "closing" ELSE @,
              !._status_waiter = "none",
              !.pc = "idle",
              !.ended = IF c.closing_for = "connect" THEN "TimeoutError" ELSE "returned"]

\* close that leaves the hello loop alone
close_hello_skipped(c) == close_transport(c)

\* close, from the hello task on: a loop in its sleep is cancelled and
\* awaited
close_hello(c) ==
    IF c._hello_task = "sleeping"
    THEN [c EXCEPT !._hello_task = "cancelling", !.pc = "close_hello"]
    ELSE close_transport(c)

\* close, from the heartbeat task on
close_heartbeat(c) ==
    IF c._heartbeat_task = "sleeping"
    THEN [c EXCEPT !._heartbeat_task = "cancelling", !.pc = "close_heartbeat"]
    ELSE close_hello(c)

\* close, from its first line to its first wait, or to its end
close_begin(c, caller) ==
    close_heartbeat([c EXCEPT !._running = FALSE, !.closing_for = caller,
                              !.ended = "none"])

\* _ping_server's wait ends with the timeout: the waiter is cancelled,
\* TimeoutError is raised and connect calls close
_ping_server_timeout ==
    /\ pc = "ping"
    /\ _status_waiter = "pending"
    /\ ClientCommit(close_begin([ClientSelf EXCEPT !._status_waiter = "none"], "connect"))
    /\ Observe("ping_timeout", <<>>, <<>>, "none")
    /\ UNCHANGED <<_connected, last_status, orphans, connects>>

\* close, called by the user of the client
RemoteClient_close ==
    /\ pc = "idle"
    /\ ClientCommit(close_begin(ClientSelf, "user"))
    /\ Observe("client_close", <<>>, <<>>, "none")
    /\ UNCHANGED <<_connected, last_status, orphans, connects>>

\* the cancelled heartbeat loop ends at its sleep and close goes on
_heartbeat_loop_cancelled ==
    /\ pc = "close_heartbeat"
    /\ _heartbeat_task = "cancelling"
    /\ ClientCommit(close_hello([ClientSelf EXCEPT !._heartbeat_task = "cancelled"]))
    /\ Observe("heartbeat_loop_cancelled", <<>>, <<>>, "none")
    /\ UNCHANGED <<_connected, last_status, orphans, connects>>

\* the cancelled hello loop ends at its sleep and close goes on
_hello_loop_cancelled ==
    /\ pc = "close_hello"
    /\ _hello_task = "cancelling"
    /\ ClientCommit(close_transport([ClientSelf EXCEPT !._hello_task = "cancelled"]))
    /\ Observe("hello_loop_cancelled", <<>>, <<>>, "none")
    /\ UNCHANGED <<_connected, last_status, orphans, connects>>

\* connection_lost: the event loop calls it after transport.close(), or
\* when the transport fails; not between connection_made and the next step
\* of connect, which the event loop has already scheduled
RemoteClient_connection_lost ==
    /\ client_transport \in {"open", "closing"}
    /\ pc # "connected"
    /\ client_transport' = "closed"
    /\ _running' = FALSE
    /\ _connected' = FALSE
    /\ Observe("client_connection_lost", <<>>, <<"Connection lost">>, "none")
    /\ UNCHANGED <<_hello_task, _heartbeat_task, _status_waiter, last_status, orphans,
                   pc, closing_for, ended, connects>>

\* an iteration of a hello loop that never finds the interval elapsed
hello_iteration_skipping(name) ==
    /\ Observe(name, <<>>, <<>>, "none")
    /\ UNCHANGED <<client_transport, _connected, _running, _hello_task, _heartbeat_task,
                   _status_waiter, last_status, orphans, pc, closing_for, ended, connects>>

\* one iteration of a hello loop: HELLO is sent if hello_retry_interval has
\* passed since a hello loop sent the last one (elapsed)
hello_iteration(name) ==
    /\ \E elapsed \in BOOLEAN :
         Observe(name,
                 IF elapsed THEN RemoteClient_send(make_hello(ClientConfig.client_id))
                 ELSE <<>>,
                 <<>>, "none")
    /\ UNCHANGED <<client_transport, _connected, _running, _hello_task, _heartbeat_task,
                   _status_waiter, last_status, orphans, pc, closing_for, ended, connects>>

\* one iteration of a heartbeat loop, after its sleep
heartbeat_iteration(name) ==
    /\ Observe(name, RemoteClient_send(make_heartbeat(ClientConfig.client_id)), <<>>, "none")
    /\ UNCHANGED <<client_transport, _connected, _running, _hello_task, _heartbeat_task,
                   _status_waiter, last_status, orphans, pc, closing_for, ended, connects>>

\* _hello_loop and _heartbeat_loop of the tasks the client refers to
_hello_loop == _hello_task = "sleeping" /\ hello_iteration("hello_loop")

_heartbeat_loop == _heartbeat_task = "sleeping" /\ heartbeat_iteration("heartbeat_loop")

\* _hello_loop and _heartbeat_loop of a task the client refers to no more
_hello_loop_orphaned == orphans > 0 /\ hello_iteration("hello_loop_orphaned")

_heartbeat_loop_orphaned == orphans > 0 /\ heartbeat_iteration("heartbeat_loop_orphaned")

\* dict.get(key, default)
GetOr(f, key, default) == IF key \in DOMAIN f THEN f[key] ELSE default

\* str(x) of a JSON scalar
Str(j) ==
    CASE j.k = "str" -> j.s
      [] j.k = "null" -> "None"
      [] j.k = "bool" -> IF j.b THEN "True" ELSE "False"
      [] j.k = "num" -> ToString(j.n)

\* _handle_status: the StatusReport built from a STATUS payload
_handle_status(payload) ==
    LET last_command_at_raw == Get(payload, "last_command_at")
        connected_raw == GetOr(payload, "connected_clients", JNum(0))
        by == Get(payload, "last_command_by")
        ds == Get(payload, "ds_state")
    IN  [robot_state |-> Str(GetOr(payload, "robot_state", JStr("unknown"))),
         last_command_by |-> IF by.k = "null" THEN <<>> ELSE <<Str(by)>>,
         last_command_at |->
             CASE last_command_at_raw.k = "num" -> <<last_command_at_raw.n>>
               [] last_command_at_raw.k = "bool" ->
                      <<IF last_command_at_raw.b THEN 1 ELSE 0>>
               [] OTHER -> <<>>,
         connected_clients |->
             CASE connected_raw.k = "num" -> connected_raw.n
               [] connected_raw.k = "bool" -> IF connected_raw.b THEN 1 ELSE 0
               [] OTHER -> 0,
         ds_state |-> IF ds.k = "null" THEN <<>> ELSE <<Str(ds)>>]

\* datagram_received of the client
RemoteClient_datagram_received(data) ==
    /\ client_transport = "open"
    /\ LET message == from_json(data)
       IN  IF message.exc = "ProtocolError"
           THEN /\ Observe("client_datagram", <<>>, <<>>, "none")
                /\ UNCHANGED <<last_status, _status_waiter>>
           ELSE IF message.exc # "none"
           THEN /\ Observe("client_datagram", <<>>, <<>>, message.exc)
                /\ UNCHANGED <<last_status, _status_waiter>>
           ELSE IF message.type = "STATUS"
           THEN /\ last_status' = <<_handle_status(message.payload)>>
                /\ _status_waiter' = IF _status_waiter = "pending" THEN "done"
                                     ELSE _status_waiter
                /\ Observe("client_datagram", <<>>, <<>>, "none")
           ELSE IF message.type = "ERROR"
           THEN /\ Observe("client_datagram", <<>>,
                           <<Str(GetOr(message.payload, "error", JStr("Unknown error")))>>,
                           "none")
                /\ UNCHANGED <<last_status, _status_waiter>>
           ELSE /\ Observe("client_datagram", <<>>, <<>>, "none")
                /\ UNCHANGED <<last_status, _status_waiter>>
    /\ UNCHANGED <<client_transport, _connected, _running, _hello_task, _heartbeat_task,
                   orphans, pc, closing_for, ended, connects>>

\* send_command
send_command(kind) ==
    /\ pc = "idle"
    /\ IF client_transport = "none"
       THEN Observe("send_command", <<>>, <<>>, "RuntimeError")
       ELSE Observe("send_command",
                    RemoteClient_send(make_command(ClientConfig.client_id, kind)),
                    <<>>, "none")
    /\ UNCHANGED <<client_transport, _connected, _running, _hello_task, _heartbeat_task,
                   _status_waiter, last_status, orphans, pc, closing_for, ended, connects>>

\* the datagrams the client receives: STATUS frames of the server, ERROR
\* frames, a frame of another kind and datagrams that are no frame
ClientDatagrams ==
    {to_json(make_status([robot_state |-> "disabled", last_command_by |-> <<>>,
                          last_command_at |-> <<>>, connected_clients |-> 1,
                          ds_state |-> ""])),
     to_json(make_status([robot_state |-> "enabled", last_command_by |-> <<"a">>,
                          last_command_at |-> <<0>>, connected_clients |-> 2,
                          ds_state |-> ""])),
     Frame("STATUS", <<>>),
     to_json(make_error("Unknown command")),
     Frame("ERROR", <<>>),
     hello(JStr("a")),
     [k |-> "badjson"],
     JList(<<>>)}

NextClient ==
    \/ RemoteClient_connect
    \/ RemoteClient_connection_made
    \/ _ping_server
    \/ _ping_server_status
    \/ _ping_server_timeout
    \/ RemoteClient_close
    \/ _heartbeat_loop_cancelled
    \/ _hello_loop_cancelled
    \/ RemoteClient_connection_lost
    \/ _hello_loop
    \/ _heartbeat_loop
    \/ _hello_loop_orphaned
    \/ _heartbeat_loop_orphaned
    \/ \E data \in ClientDatagrams : RemoteClient_datagram_received(data)
    \/ \E kind \in {"enable", "disable"} : send_command(kind)

SpecClient == Init /\ [][NextClient]_vars

\* The client on an event loop that runs what is ready: the timeout of
\* _ping_server's wait and the end of a cancelled task do happen
SpecClientFair ==
    /\ SpecClient
    /\ WF_vars(_ping_server_status \/ _ping_server_timeout)
    /\ WF_vars(_heartbeat_loop_cancelled)
    /\ WF_vars(_hello_loop_cancelled)

-----------------------------------------------------------------------------
\* Watchdog

\* every session of the table has gone longer than the timeout without a
\* HELLO or HEARTBEAT
AllStale == \A c \in DOMAIN sessions : now - sessions[c].last_heartbeat > HEARTBEAT_TIMEOUT

\* C1: a watchdog tick that finds the robot enabled and every session
\* without HELLO or HEARTBEAT for longer than heartbeat_timeout leaves
\* robot_state disabled and last_command_by "watchdog".
C1_WatchdogSafety ==
    [][(step' = "watchdog" /\ robot_state = "enabled" /\ AllStale)
         => (robot_state' = "disabled" /\ last_command_by' = <<"watchdog">>)]_vars

\* the watchdog has evicted the last session and disabled the robot
C1_Witness ==
    /\ step = "watchdog"
    /\ robot_state = "disabled"
    /\ last_command_by = <<"watchdog">>
    /\ last_command_at = <<now>>
    /\ DOMAIN sessions = {}
    /\ Len(calls) = 1 /\ calls[1] = Call("disable", "watchdog", "disable", calls[1].success)

\* C2: a watchdog tick in state estop changes neither robot_state nor
\* last_command_by, whatever it evicts and however empty the table is.
C2_WatchdogLeavesEstop ==
    [][(step' = "watchdog" /\ robot_state = "estop")
         => (robot_state' = "estop" /\ last_command_by' = last_command_by)]_vars

\* a tick has run in state estop with no session left
C2_Witness ==
    /\ step = "watchdog"
    /\ robot_state = "estop"
    /\ last_command_by = <<"a">>
    /\ DOMAIN sessions = {}
    /\ calls = <<>>

-----------------------------------------------------------------------------
\* Command gating

\* the COMMAND frames among the client inputs, with their sender address
CommandInputs == {in \in ClientInputs : IsCommand(in[1])}

\* the client_id and the command string of a COMMAND frame
ClientOf(data) == data.o["payload"].o["client_id"].s
CommandOf(data) == Get(data.o["payload"].o, "command")

\* the operation sent exactly one frame, an ERROR frame, to addr
ErrorReply(frames, addr) ==
    /\ Len(frames) = 1
    /\ frames[1].to = addr
    /\ frames[1].msg.type = "ERROR"

\* the operation changed none of the server's fields and called no executor
Rejected ==
    /\ robot_state' = robot_state
    /\ last_command_by' = last_command_by
    /\ last_command_at' = last_command_at
    /\ sessions' = sessions
    /\ calls' = <<>>

-----------------------------------------------------------------------------
\* Command application

\* the operation applied exactly one command, one of these, for a client
Applied(log, commands) ==
    /\ Len(log) = 1
    /\ log[1].command \in commands
    /\ log[1].client_id \in ClientIds

\* C5: an ENABLE from a registered client sets robot_state to enabled if
\* and only if the executor reports success, and on failure robot_state
\* keeps its value.
C5_EnableIffSuccess ==
    [][(step' = "datagram" /\ Applied(calls', {"enable"}))
         => /\ calls'[1].op = "enable"
            /\ calls'[1].client_id \in DOMAIN sessions
            /\ calls'[1].success => robot_state' = "enabled"
            /\ ~calls'[1].success => robot_state' = robot_state]_vars

\* an ENABLE failed and robot_state stayed estop
C5_Witness ==
    /\ step = "datagram"
    /\ calls = <<Call("enable", "a", "enable", FALSE)>>
    /\ robot_state = "estop"
    /\ last_command_by = <<"a">>

\* C6: a DISABLE, from a registered client or from the watchdog, sets
\* robot_state to disabled whatever the executor reports.
C6_DisableAlways ==
    [][(Len(calls') = 1 /\ calls'[1].command = "disable")
         => /\ calls'[1].op = "disable"
            /\ step' = "datagram" => calls'[1].client_id \in DOMAIN sessions
            /\ step' = "watchdog" => calls'[1].client_id = "watchdog"
            /\ robot_state' = "disabled"]_vars

\* a client's DISABLE was applied although the executor reported failure
C6_Witness ==
    /\ step = "datagram"
    /\ calls = <<Call("disable", "a", "disable", FALSE)>>
    /\ robot_state = "disabled"
    /\ last_command_by = <<"a">>

\* C7: an ESTOP from a registered client sets robot_state to estop whatever
\* the executor reports, also when the call underneath throws.
C7_EstopAlways ==
    [][(step' = "datagram" /\ Applied(calls', {"estop"}))
         => /\ calls'[1].op = "estop"
            /\ calls'[1].client_id \in DOMAIN sessions
            /\ robot_state' = "estop"
            /\ raised' = "none"]_vars

\* an ESTOP was applied although the key press underneath threw
C7_Witness ==
    /\ step = "datagram"
    /\ backend = "pyautogui"
    /\ calls = <<Call("estop", "a", "estop", FALSE)>>
    /\ robot_state = "estop"
    /\ raised = "none"

\* C8: robot_state leaves estop only by a DISABLE.
C8_EstopUntilDisable ==
    [][(robot_state = "estop" /\ robot_state' # "estop")
         => (Len(calls') = 1 /\ calls'[1].command = "disable")]_vars

\* C9: a TELEOP, AUTO, PRACTICE or TEST command from a registered client
\* leaves robot_state unchanged.
C9_ModeKeepsState ==
    [][(step' = "datagram" /\ Applied(calls', ModeCommands))
         => /\ calls'[1].op = RobotMode(calls'[1].command)
            /\ calls'[1].client_id \in DOMAIN sessions
            /\ robot_state' = robot_state]_vars

\* a TEST command was handled while the robot was enabled
C9_Witness ==
    /\ step = "datagram"
    /\ Applied(calls, {"test"})
    /\ robot_state = "enabled"

\* the STATUS frames a broadcast of the current fields sends
BroadcastOf(table, state, by, at) ==
    LET ids == SelectSeq(SessionOrder, LAMBDA c : c \in DOMAIN table)
    IN  [i \in 1..Len(ids) |->
           [to |-> table[ids[i]].address,
            msg |-> make_status([robot_state |-> state,
                                 last_command_by |-> by,
                                 last_command_at |-> at,
                                 connected_clients |-> Cardinality(DOMAIN table),
                                 ds_state |-> ""])]]

\* C10: every COMMAND of a registered client with a recognised command
\* string records the sender and the time and, in the same step, sends the
\* resulting STATUS to every session.
C10_AppliedCommandBroadcasts ==
    [][\A in \in CommandInputs, outcome \in Outcomes :
         (/\ ClientOf(in[1]) \in DOMAIN sessions
          /\ CommandOf(in[1]).k = "str" /\ CommandOf(in[1]).s \in CommandType
          /\ datagram_received(in[1], in[2], outcome))
         => /\ last_command_by' = <<ClientOf(in[1])>>
            /\ last_command_at' = <<now>>
            /\ sent' = BroadcastOf(sessions', robot_state', last_command_by',
                                   last_command_at')]_vars

-----------------------------------------------------------------------------
\* Registration

\* the message kind of a frame
TypeOf(data) == data.o["type"].s

\* the HELLO and the HEARTBEAT frames among the client inputs
HelloInputs == {in \in ClientInputs : TypeOf(in[1]) = "HELLO"}
HeartbeatInputs == {in \in ClientInputs : TypeOf(in[1]) = "HEARTBEAT"}

StatusOf(table, state, by, at) ==
    make_status([robot_state |-> state,
                 last_command_by |-> by,
                 last_command_at |-> at,
                 connected_clients |-> Cardinality(DOMAIN table),
                 ds_state |-> ""])

NoIdInputs ==
    {in \in Inputs :
        /\ from_json(in[1]).exc = "none"
        /\ TypeOf(in[1]) \in {"HELLO", "HEARTBEAT", "COMMAND"}
        /\ Get(from_json(in[1]).payload, "client_id").k # "str"}

\* C13: a HELLO, HEARTBEAT or COMMAND frame whose client_id is missing or
\* is no string is answered with ERROR "client_id required" and changes
\* neither the session table nor robot_state nor last_command_by.
C13_ClientIdRequired ==
    [][\A in \in NoIdInputs :
         datagram_received(in[1], in[2], "ok")
         => /\ sent' = <<[to |-> in[2], msg |-> make_error("client_id required")]>>
            /\ Rejected]_vars

\* a frame without a usable client_id was rejected while the robot was
\* enabled by "a"
C13_Witness ==
    /\ step = "datagram"
    /\ sent = <<[to |-> "addr1", msg |-> make_error("client_id required")]>>
    /\ robot_state = "enabled"
    /\ last_command_by = <<"a">>
    /\ DOMAIN sessions = {"a"}

-----------------------------------------------------------------------------
\* Decoding

\* the bytes are no encoding of a JSON value
BadBytes(data) == data.k \in {"badutf8", "badjson"}

\* a JSON object without a type, or with a type that is no message kind
BadType(data) ==
    /\ data.k = "obj"
    /\ \/ "type" \notin DOMAIN data.o
       \/ ~(data.o["type"].k = "str" /\ data.o["type"].s \in MessageType)

\* a JSON object with a payload that is a list, a string, a number or a
\* boolean
BadPayload(data) ==
    /\ data.k = "obj"
    /\ "payload" \in DOMAIN data.o
    /\ data.o["payload"].k \in {"list", "str", "num", "bool"}

\* a JSON value that is no object
NotAnObject(data) == ~BadBytes(data) /\ data.k # "obj"

\* the datagrams among the inputs that are no well-formed frame
MalformedInputs ==
    {in \in FrameInputs :
        BadBytes(in[1]) \/ NotAnObject(in[1]) \/ BadType(in[1]) \/ BadPayload(in[1])}

\* C14: every datagram that is no well-formed frame is answered with one
\* ERROR frame to the sender, with an error text that is not empty, and
\* changes neither the session table nor robot_state.
C14_MalformedGetsError ==
    [][\A in \in MalformedInputs :
         datagram_received(in[1], in[2], "ok")
         => /\ ErrorReply(sent', in[2])
            /\ sent'[1].msg.payload.error # ""
            /\ raised' = "none"
            /\ Rejected]_vars

\* C15: from_json raises ProtocolError for bytes that are no valid
\* encoding, for a missing type, for a type that is none of the five
\* message kinds, and for a payload that is present and is a list, a
\* string, a number or a boolean.
C15_DecodeFailures ==
    [][\A in \in FrameInputs :
         (/\ BadBytes(in[1]) \/ BadType(in[1]) \/ BadPayload(in[1])
          /\ datagram_received(in[1], in[2], "ok"))
         => from_json(in[1]).exc = "ProtocolError"]_vars

\* the frames the five constructors build in this state: the client's
\* frames at the current time, the STATUS frame of the current report, the
\* ERROR frames of the server, and the frames the last operation sent
ErrorTexts ==
    {"client_id required", "Send HELLO before HEARTBEAT",
     "Client not registered; send HELLO first", "Unknown command",
     "Invalid JSON payload", "Missing message type", "Unknown message type",
     "Payload must be an object"}

BuiltFrames ==
    {make_hello(c) : c \in ClientIds}
        \cup {make_heartbeat(c) : c \in ClientIds}
        \cup {make_command(c, k) : c \in ClientIds, k \in CommandType}
        \cup {make_status(_status_report(Self))}
        \cup {make_error(e) : e \in ErrorTexts}
        \cup {sent[i].msg : i \in 1..Len(sent)}

\* decoding the encoding of a frame gives the frame's kind and payload
RoundTrip(f) ==
    LET m == from_json(to_json(f))
    IN  /\ m.exc = "none"
        /\ m.type = f.type
        /\ DOMAIN m.payload = DOMAIN f.payload
        /\ \A key \in DOMAIN f.payload : loads(key, m.payload[key]) = f.payload[key]

\* C16: from_json(to_json(f)) has the message kind and the payload of f,
\* for every frame f that make_hello, make_heartbeat, make_command,
\* make_status and make_error build.
C16_RoundTrip == \A f \in BuiltFrames : RoundTrip(f)

\* the server has sent a STATUS frame with both optional fields set
C16_Witness ==
    /\ Len(sent) = 2
    /\ sent[1].msg.type = "STATUS"
    /\ sent[1].msg.payload.last_command_by = <<"a">>
    /\ sent[1].msg.payload.last_command_at = <<now>>
    /\ sent[1].msg.payload.connected_clients = 2
    /\ now = 1
    /\ RoundTrip(sent[1].msg)

-----------------------------------------------------------------------------
\* Status reports

\* the STATUS frames among the frames the last operation sent
StatusSent == {i \in 1..Len(sent) : sent[i].msg.type = "STATUS"}

\* C17: every STATUS frame the server sends, as the reply to a HELLO, as
\* the broadcast of a command or as the periodic broadcast, carries the
\* number of sessions the table holds when the frame is built (no operation
\* changes the table after it has built a frame).
C17_ConnectedClientsFresh ==
    \A i \in StatusSent :
        sent[i].msg.payload.connected_clients = Cardinality(DOMAIN sessions)

\* the watchdog evicted one of two sessions that shared an address and its
\* broadcast reported the one that is left
C17_Witness ==
    /\ step = "watchdog"
    /\ DOMAIN sessions = {"watchdog"}
    /\ StatusSent = {1}
    /\ sent[1].to = "addr2"
    /\ sent[1].msg.payload.connected_clients = 1
    /\ sent[1].msg.payload.last_command_by = <<"watchdog">>
    /\ sent[1].msg.payload.robot_state = "disabled"

-----------------------------------------------------------------------------
\* Session timestamps

-----------------------------------------------------------------------------
\* Scenario C

\* the robot is enabled and the only session there is has gone longer than
\* the timeout without a HELLO or HEARTBEAT
OnlyClientStale ==
    /\ robot_state = "enabled"
    /\ Cardinality(DOMAIN sessions) = 1
    /\ AllStale

\* a STATUS frame that shows the watchdog's DISABLE and no client
ShowsWatchdogDisable(frame) ==
    /\ frame.msg.type = "STATUS"
    /\ frame.msg.payload.robot_state = "disabled"
    /\ frame.msg.payload.last_command_by = <<"watchdog">>
    /\ frame.msg.payload.connected_clients = 0

\* C19, as claimed: the watchdog tick that finds the only client stale
\* while enabled sends a STATUS frame that shows robot_state disabled,
\* last_command_by watchdog and connected_clients 0.
C19_WatchdogBroadcastsDisable ==
    [][(step' = "watchdog" /\ OnlyClientStale)
         => \E i \in 1..Len(sent') : ShowsWatchdogDisable(sent'[i])]_vars

\* C19, amended: that tick leaves robot_state disabled, last_command_by
\* watchdog and the session table empty, which is what the next STATUS
\* frame reports, and sends no frame itself: its broadcast has no session
\* left to go to.
C19_WatchdogDisablesUnheard ==
    [][(step' = "watchdog" /\ OnlyClientStale)
         => /\ robot_state' = "disabled"
            /\ last_command_by' = <<"watchdog">>
            /\ last_command_at' = <<now>>
            /\ sessions' = <<>>
            /\ sent' = <<>>
            /\ ShowsWatchdogDisable(
                   [msg |-> StatusOf(sessions', robot_state', last_command_by',
                                     last_command_at')])]_vars

\* the tick has evicted the only client of an enabled robot over an open
\* transport and has sent nothing
C19_Witness ==
    /\ step = "watchdog"
    /\ transport = "open"
    /\ calls = <<Call("disable", "watchdog", "disable", TRUE)>>
    /\ robot_state = "disabled"
    /\ last_command_by = <<"watchdog">>
    /\ sessions = <<>>
    /\ sent = <<>>
    /\ now = 2

-----------------------------------------------------------------------------
\* Unknown commands

\* the command string of a COMMAND frame is one of the seven kinds
KnownCommand(data) == CommandOf(data).k = "str" /\ CommandOf(data).s \in CommandType

\* C20: a COMMAND of a registered client whose command is missing, is no
\* string or is none of the seven kinds is answered with ERROR "Unknown
\* command" and nothing else is sent; robot_state, last_command_by,
\* last_command_at and the session table keep their values and no executor
\* operation is called.
C20_UnknownCommandRejected ==
    [][\A in \in CommandInputs :
         (/\ ClientOf(in[1]) \in DOMAIN sessions
          /\ ~KnownCommand(in[1])
          /\ datagram_received(in[1], in[2], "ok"))
         => /\ sent' = <<[to |-> in[2], msg |-> make_error("Unknown command")]>>
            /\ raised' = "none"
            /\ Rejected]_vars

\* an unknown command of "a" was rejected while the robot was enabled and
\* two clients were registered
C20_Witness ==
    /\ step = "datagram"
    /\ sent = <<[to |-> "addr1", msg |-> make_error("Unknown command")]>>
    /\ robot_state = "enabled"
    /\ DOMAIN sessions = {"a", "watchdog"}
    /\ calls = <<>>

-----------------------------------------------------------------------------
\* Watchdog loop lifetime

-----------------------------------------------------------------------------
\* Shutdown

\* C22: when close has closed the transport, the watchdog loop and the
\* status loop have terminated: neither is in its sleep or still waiting
\* for its cancellation to be delivered.
C22_CloseAwaitsLoops ==
    [][step' = "close"
         => /\ transport' = "closed"
            /\ watchdog_task' \in {"cancelled", "done", "failed"}
            /\ status_task' \in {"cancelled", "done", "failed"}]_vars

-----------------------------------------------------------------------------
\* The client's handshake

\* C23: a connect() whose handshake gets no STATUS before the timeout does
\* not stay in its wait: the timeout makes it call close() and then raise
\* TimeoutError, and when it raises, the hello task and the heartbeat task
\* of the client are cancelled, the transport is closed, _running is
\* cleared and no waiter is left; connect() returns normally from the
\* handshake only after a STATUS was received.
C23_ConnectTimeout ==
    /\ [][/\ step' = "ping_timeout"
               => /\ closing_for' = "connect"
                  /\ ~_running'
                  /\ _status_waiter' = "none"
                  /\ pc' \in {"close_heartbeat", "close_hello", "idle"}
          /\ (ended' = "TimeoutError" /\ ended # "TimeoutError")
               => /\ pc' = "idle"
                  /\ closing_for = "connect"
                  /\ _hello_task' = "cancelled"
                  /\ _heartbeat_task' = "cancelled"
                  /\ client_transport' \in {"closing", "closed"}
                  /\ ~_running'
                  /\ _status_waiter' = "none"
          /\ (pc = "ping" /\ pc' = "idle" /\ ended' = "returned")
               => last_status' # <<>>]_vars
    /\ (pc = "ping" ~> pc = "idle")

\* the first connect() of a client got no STATUS and has raised
\* TimeoutError after close() cancelled both loops and closed the transport
C23_Witness ==
    /\ step = "hello_loop_cancelled"
    /\ pc = "idle"
    /\ ended = "TimeoutError"
    /\ connects = 1
    /\ last_status = <<>>
    /\ _hello_task = "cancelled"
    /\ _heartbeat_task = "cancelled"
    /\ client_transport = "closing"

\* C24: connection_lost passes "Connection lost" to the error callback and
\* leaves no hello loop and no heartbeat loop of the client alive to send a
\* further HELLO or HEARTBEAT.
C24_ConnectionLostStopsLoops ==
    [][step' = "client_connection_lost"
         => /\ on_error' = <<"Connection lost">>
            /\ _hello_task' # "sleeping"
            /\ _heartbeat_task' # "sleeping"
            /\ orphans' = 0]_vars

-----------------------------------------------------------------------------
\* Enabled robots have a client

\* C25: in every reachable state where robot_state is enabled the session
\* table holds at least one session.
C25_EnabledHasSession == robot_state = "enabled" => DOMAIN sessions # {}

\* a tick has run on an enabled robot and has kept its one session, which
\* is within the timeout
C25_Witness ==
    /\ step = "watchdog"
    /\ robot_state = "enabled"
    /\ DOMAIN sessions = {"a"}
    /\ now - sessions["a"].last_heartbeat = HEARTBEAT_TIMEOUT
    /\ calls = <<>>

-----------------------------------------------------------------------------
\* The watchdog's forced DISABLE

\* the sessions the step has removed
Evicted == DOMAIN sessions \ DOMAIN sessions'

\* the step has applied DISABLE in the name of the watchdog
Forced ==
    /\ Len(calls') = 1
    /\ calls'[1].command = "disable"
    /\ calls'[1].client_id = "watchdog"
    /\ calls'[1].op = "disable"

\* C26: a watchdog tick applies DISABLE as "watchdog" exactly when
\* robot_state is enabled and the tick evicted a session or left the table
\* empty, also when sessions remain; the forced DISABLE leaves robot_state
\* disabled and last_command_by watchdog; a tick that applies none calls no
\* executor and keeps robot_state, last_command_by and last_command_at, as
\* every tick in state disabled or estop does.
C26_ForcedDisableExactly ==
    [][step' = "watchdog"
         => /\ Forced <=> (robot_state = "enabled"
                            /\ (Evicted # {} \/ DOMAIN sessions' = {}))
            /\ Forced => /\ robot_state' = "disabled"
                         /\ last_command_by' = <<"watchdog">>
                         /\ last_command_at' = <<now>>
            /\ ~Forced => /\ calls' = <<>>
                          /\ robot_state' = robot_state
                          /\ last_command_by' = last_command_by
                          /\ last_command_at' = last_command_at
            /\ robot_state \in {"disabled", "estop"} => ~Forced]_vars

\* a tick has evicted one client of an enabled robot and disabled it while
\* the other client, heard from at this very time, stays registered
C26_Witness ==
    /\ step = "watchdog"
    /\ calls = <<Call("disable", "watchdog", "disable", TRUE)>>
    /\ robot_state = "disabled"
    /\ last_command_by = <<"watchdog">>
    /\ DOMAIN sessions = {"a"}
    /\ sessions["a"].last_heartbeat = now

-----------------------------------------------------------------------------
\* Command application and its broadcast

\* the robot_state a run of _apply_command leaves, given the one before
Produced(call, state) ==
    CASE call.op = "disable" -> {"disabled"}
      [] call.op = "estop" -> {"estop"}
      [] call.op = "enable" /\ call.success -> {"enabled"}
      [] OTHER -> {"disabled", "enabled", "estop"}

\* C27: every STATUS frame sent by a step that applied a command reports
\* the fields as that command left them: the robot_state it produced, its
\* sender as last_command_by, its time as last_command_at and the sessions
\* of the table (no other operation runs between the assignment and the
\* broadcast, _apply_command being one synchronous call).
C27_BroadcastCarriesCommand ==
    calls # <<>>
      => \A i \in StatusSent :
           /\ sent[i].msg = StatusOf(sessions, robot_state, last_command_by,
                                     last_command_at)
           /\ sent[i].msg.payload.last_command_by = <<calls[1].client_id>>
           /\ sent[i].msg.payload.last_command_at = <<now>>
           /\ sent[i].msg.payload.robot_state \in Produced(calls[1], robot_state)

\* an ESTOP of "a" on an enabled robot was broadcast to both clients
C27_Witness ==
    /\ step = "datagram"
    /\ calls = <<Call("estop", "a", "estop", TRUE)>>
    /\ StatusSent = {1, 2}
    /\ sent[1].msg.payload.robot_state = "estop"
    /\ sent[2].msg.payload.last_command_by = <<"a">>
    /\ DOMAIN sessions = {"a", "watchdog"}

-----------------------------------------------------------------------------
\* Eviction

\* C28: a watchdog tick removes exactly the sessions whose last_heartbeat
\* lies more than heartbeat_timeout back (one at exactly the timeout is
\* kept) and leaves the others as they are; no other step removes a
\* session.
C28_EvictsExactlyStale ==
    [][/\ step' = "watchdog"
            => /\ DOMAIN sessions' =
                    {c \in DOMAIN sessions :
                        now - sessions[c].last_heartbeat <= HEARTBEAT_TIMEOUT}
               /\ \A c \in DOMAIN sessions' : sessions'[c] = sessions[c]
       /\ step' # "watchdog" => DOMAIN sessions \subseteq DOMAIN sessions']_vars

\* a tick has evicted one client of an enabled robot and kept the other,
\* whose last_heartbeat is exactly heartbeat_timeout back
C28_Witness ==
    /\ step = "watchdog"
    /\ Len(calls) = 1
    /\ calls[1].client_id = "watchdog"
    /\ DOMAIN sessions = {"a"}
    /\ now - sessions["a"].last_heartbeat = HEARTBEAT_TIMEOUT

-----------------------------------------------------------------------------
\* robot_state

\* C29: robot_state is disabled initially, is always one of disabled,
\* enabled and estop, and changes only in a step that applies a command
\* through enable, disable or estop: a COMMAND of a client or the
\* watchdog's forced DISABLE. HELLO, HEARTBEAT, STATUS and ERROR frames,
\* rejected and malformed datagrams, the periodic broadcast and the other
\* steps keep it.
C29_RobotStateChanges ==
    /\ robot_state = "disabled"
    /\ [](robot_state \in {"disabled", "enabled", "estop"})
    /\ [][robot_state' # robot_state
            => /\ step' \in {"datagram", "watchdog"}
               /\ Len(calls') = 1
               /\ calls'[1].op \in {"enable", "disable", "estop"}
               /\ step' = "watchdog" => Forced]_vars

\* a datagram that is no HELLO or HEARTBEAT of "a" got no reply and left
\* the robot enabled
C29_Witness ==
    /\ step = "datagram"
    /\ robot_state = "enabled"
    /\ sent = <<>> /\ calls = <<>> /\ raised = "none"
    /\ DOMAIN sessions = {"a"}
    /\ sessions["a"].last_heartbeat < now

-----------------------------------------------------------------------------
\* Commands are no sign of life

\* the step has run _handle_command for a frame with a client_id: it has
\* applied the command or has answered with one of the handler's two errors
CommandHandled ==
    /\ step' = "datagram"
    /\ \/ calls' # <<>>
       \/ /\ Len(sent') = 1
          /\ sent'[1].msg \in {make_error("Client not registered; send HELLO first"),
                               make_error("Unknown command")}

\* C30: handling a COMMAND, applied or rejected, leaves the session table
\* as it is (last_heartbeat and address of the sender included), and a
\* watchdog tick evicts every session whose last HELLO or HEARTBEAT lies
\* more than heartbeat_timeout back, whatever commands it sent since.
C30_CommandKeepsSessions ==
    [][/\ CommandHandled => sessions' = sessions
       /\ step' = "watchdog"
            => \A c \in DOMAIN sessions :
                 now - sessions[c].last_heartbeat > HEARTBEAT_TIMEOUT
                    => c \notin DOMAIN sessions']_vars

\* an ENABLE of "a" was applied when its last HELLO or HEARTBEAT was more
\* than heartbeat_timeout back, and its session still carries that time
C30_Witness ==
    /\ step = "datagram"
    /\ calls = <<Call("enable", "a", "enable", TRUE)>>
    /\ robot_state = "enabled"
    /\ sessions["a"].last_heartbeat = 0
    /\ now - sessions["a"].last_heartbeat > HEARTBEAT_TIMEOUT

-----------------------------------------------------------------------------
\* Who may command

\* C31: a COMMAND that carries the client_id of a session but comes from
\* another address than the one the session stores leaves robot_state as
\* it is.
C31_CommandFromStoredAddress ==
    [][\A in \in CommandInputs, outcome \in Outcomes :
         (/\ ClientOf(in[1]) \in DOMAIN sessions
          /\ sessions[ClientOf(in[1])].address # in[2]
          /\ datagram_received(in[1], in[2], outcome))
         => robot_state' = robot_state]_vars

\* C32: a step that applies the COMMAND of a client never leaves
\* last_command_by as "watchdog": that value only follows the watchdog's
\* forced DISABLE.
C32_WatchdogNameReserved ==
    [][(step' = "datagram" /\ calls' # <<>>) => last_command_by' # <<"watchdog">>]_vars

-----------------------------------------------------------------------------
\* The watchdog after a lost transport

\* C33: once connection_lost has cleared running, the watchdog loop runs
\* no tick that evicts a session, applies a command or hands a frame to
\* the transport.
C33_NoTickAfterConnectionLost ==
    [][(step' = "watchdog" /\ ~running)
         => /\ sessions' = sessions
            /\ calls' = <<>>
            /\ sent' = <<>>
            /\ robot_state' = robot_state]_vars

-----------------------------------------------------------------------------
\* Rejected frames

\* the datagrams that decode to a HELLO, HEARTBEAT or COMMAND frame
ClientFrameInputs ==
    {in \in FrameInputs :
        /\ from_json(in[1]).exc = "none"
        /\ TypeOf(in[1]) \in {"HELLO", "HEARTBEAT", "COMMAND"}}

\* the frame was served: its command was applied, or the session of its
\* client_id was created or refreshed from its sender address
Served(in) ==
    LET id == Get(from_json(in[1]).payload, "client_id")
    IN  /\ id.k = "str"
        /\ IF TypeOf(in[1]) = "COMMAND"
             THEN calls' # <<>>
             ELSE /\ id.s \in DOMAIN sessions'
                  /\ sessions'[id.s] = ClientSession(id.s, in[2])

\* C34: every decoded HELLO, HEARTBEAT or COMMAND frame that is not served
\* is answered with exactly one ERROR frame to its sender, whatever its
\* client_id is, the empty string included.
C34_RejectedFrameGetsError ==
    [][\A in \in ClientFrameInputs :
         (datagram_received(in[1], in[2], "ok") /\ ~Served(in))
         => ErrorReply(sent', in[2])]_vars

-----------------------------------------------------------------------------
\* The client's loops

\* C35: the heartbeat loop sends no HEARTBEAT while connect is still
\* waiting for the STATUS of its handshake.
C35_NoHeartbeatDuringHandshake ==
    [][(step' = "heartbeat_loop" /\ sent' # <<>>)
         => ~(pc = "ping" /\ _status_waiter = "pending")]_vars

\* the loops that are alive: the ones the client refers to and the ones it
\* refers to no more
Alive(task) == IF task \in {"sleeping", "cancelling"} THEN 1 ELSE 0

\* C36: at most one hello loop and at most one heartbeat loop are alive.
C36_OneLoopOfEachKind ==
    /\ Alive(_hello_task) + orphans <= 1
    /\ Alive(_heartbeat_task) + orphans <= 1

-----------------------------------------------------------------------------
\* Address migration

\* C38: a HELLO of a registered client_id from another address than the one
\* its session stores is answered with STATUS like any HELLO and makes the
\* sender's address the session's address; every STATUS frame of every
\* step goes to an address that a session stores after the step, so none
\* goes to the address the session has left; and the address of a session
\* changes only in a step that handles a HELLO or a HEARTBEAT.
C38_HelloMovesSession ==
    /\ [][\A in \in HelloInputs :
            (/\ ClientOf(in[1]) \in DOMAIN sessions
             /\ sessions[ClientOf(in[1])].address # in[2]
             /\ datagram_received(in[1], in[2], "ok"))
            => /\ DOMAIN sessions' = DOMAIN sessions
               /\ sessions'[ClientOf(in[1])].address = in[2]
               /\ sent' = <<[to |-> in[2],
                             msg |-> StatusOf(sessions', robot_state',
                                              last_command_by', last_command_at')]>>]_vars
    /\ [][\A i \in 1..Len(sent') :
            sent'[i].msg.type = "STATUS"
            => \E c \in DOMAIN sessions' : sessions'[c].address = sent'[i].to]_vars
    /\ [][\A c \in DOMAIN sessions \cap DOMAIN sessions' :
            sessions'[c].address # sessions[c].address
            => /\ step' = "datagram"
               /\ calls' = <<>>
               /\ sessions'[c].last_heartbeat = now
               /\ \/ sent' = <<>>
                  \/ sent' = <<[to |-> sessions'[c].address,
                                msg |-> StatusOf(sessions', robot_state',
                                                 last_command_by', last_command_at')]>>]_vars

\* the periodic broadcast went to the second address alone, for the session
\* of "a", which a COMMAND of time 0 shows registered before its HELLO or
\* HEARTBEAT of time 1
C38_Witness ==
    /\ step = "status"
    /\ DOMAIN sessions = {"a"}
    /\ sessions["a"] = [client_id |-> "a", address |-> "addr2", last_heartbeat |-> 1]
    /\ robot_state = "enabled"
    /\ last_command_at = <<0>>
    /\ Len(sent) = 1
    /\ sent[1].to = "addr2"

-----------------------------------------------------------------------------
\* Heartbeats that are accepted

-----------------------------------------------------------------------------
\* Frames of the server's own kinds

\* the datagrams that decode to a STATUS or an ERROR frame
ServerFrameInputs ==
    {in \in FrameInputs :
        /\ from_json(in[1]).exc = "none"
        /\ TypeOf(in[1]) \in {"STATUS", "ERROR"}}

\* C40: a STATUS or ERROR frame that the server receives changes neither
\* the session table nor robot_state, last_command_by and last_command_at,
\* calls no executor and is answered with no frame.
C40_ServerFramesIgnored ==
    [][\A in \in ServerFrameInputs :
         datagram_received(in[1], in[2], "ok") => (Rejected /\ sent' = <<>>)]_vars

\* a datagram was dropped without a reply while "a" was registered and the
\* robot was in estop
C40_Witness ==
    /\ step = "datagram"
    /\ sent = <<>> /\ calls = <<>> /\ raised = "none"
    /\ robot_state = "estop"
    /\ DOMAIN sessions = {"a"}
    /\ sessions["a"].last_heartbeat < now

-----------------------------------------------------------------------------
\* The client and the server on one network. A frame is on the wire from
\* the step that hands it to a transport until the next step: that step
\* delivers it, or it is lost. The client's datagrams come from ClientAddress

ClientAddress == "addr1"

\* a frame of the client reaches the server: the server's datagram_received
deliver_to_server ==
    \E i \in 1..Len(sent), outcome \in Outcomes :
        /\ sent[i].to = "server"
        /\ outcome = "ok" \/ sent[i].msg.type = "COMMAND"
        /\ datagram_received(to_json(sent[i].msg), ClientAddress, outcome)
        /\ UNCHANGED hello_seen

\* a frame of the server reaches the client: the client's datagram_received
deliver_to_client ==
    \E i \in 1..Len(sent) :
        /\ sent[i].to = ClientAddress
        /\ RemoteClient_datagram_received(to_json(sent[i].msg))

\* a HELLO of the client is on the wire and the server's endpoint is open
HelloOnWire ==
    /\ transport = "open"
    /\ \E i \in 1..Len(sent) : sent[i].to = "server" /\ sent[i].msg.type = "HELLO"

\* the HELLO that is on the wire reaches the server
deliver_hello == HelloOnWire /\ deliver_to_server

\* an iteration of the hello loop that finds hello_retry_interval elapsed
_hello_loop_resend ==
    /\ _hello_loop
    /\ sent' = RemoteClient_send(make_hello(ClientConfig.client_id))

\* one client, which connects once, and one server whose executor may
\* succeed or fail at every call
InitSystem == Init /\ backend = "pyautogui"

connect_once == connects = 0 /\ RemoteClient_connect

NextSystem ==
    \/ start
    \/ clock
    \/ \E outcome \in Outcomes : _watchdog_loop(outcome)
    \/ _status_loop
    \/ connection_lost
    \/ close
    \/ _watchdog_loop_cancelled
    \/ _status_loop_cancelled
    \/ deliver_to_server
    \/ deliver_to_client
    \/ connect_once
    \/ RemoteClient_connection_made
    \/ _ping_server
    \/ _ping_server_status
    \/ _ping_server_timeout
    \/ RemoteClient_close
    \/ _heartbeat_loop_cancelled
    \/ _hello_loop_cancelled
    \/ RemoteClient_connection_lost
    \/ _hello_loop
    \/ _heartbeat_loop
    \/ \E kind \in {"enable", "disable"} : send_command(kind)

SpecSystem == InitSystem /\ [][NextSystem]_vars

\* The same system when the hello loop keeps running and the network does
\* not lose every HELLO: of two iterations of the hello loop in a row one
\* finds hello_retry_interval elapsed (the clock is never set back), and a
\* HELLO that is on the wire again and again is delivered again and again
\* (strong fairness of deliver_hello, whose enabling condition is
\* HelloOnWire)
SpecSystemFair ==
    /\ SpecSystem
    /\ WF_vars(_hello_loop_resend)
    /\ []<>HelloOnWire => []<><<deliver_hello>>_vars

-----------------------------------------------------------------------------
\* Re-registration after an eviction

\* the client's hello loop is alive on an open transport, and the server's
\* endpoint is open
ClientRunning == client_transport = "open" /\ _hello_task = "sleeping"
ServerUp == transport = "open"

====
